---- MODULE Spec2Model ----
(***************************************************************************)
(* A model of the streaming FASTA/FASTQ record reader of kseq-rs           *)
(* (src/src/record.rs).  Bytes are one-character strings, a byte stream is *)
(* a sequence of bytes, and the buffered source under a Reader is a stream *)
(* together with the absolute positions at which its fill_buf chunks end.  *)
(***************************************************************************)
EXTENDS Integers, Sequences, FiniteSets, TLC

VARIABLES reader,   \* the Reader: its buffered source (src, cuts, pos) and its data buffer
          readers,  \* the Readers: its cursor (index) and its list of Readers (readers)
          paths,    \* what parse_path answered: Paths::Reader, Paths::Readers, or an error
          out,      \* the results of the iter_record calls made so far, oldest first
          meta      \* what the input was built from (the records written into the stream)

vars == <<reader, readers, paths, out, meta>>

----------------------------------------------------------------------------
(* Bounds *)

MaxRawLen == 4      \* longest arbitrary byte string fed to a Reader
MaxChunk == 2       \* largest uniform fill_buf chunk size (besides "everything at once")
MaxCalls == 4       \* iter_record calls made on one Reader
MaxRecs == 2        \* records written into a structured stream
MaxSeqLen == 6      \* longest sequence of a record written with a quality of another length
MaxReaders == 2     \* Readers held by one Readers
MaxIntr == 1        \* fill_buf calls on one stream that fail with Interrupted
MaxLines == 2       \* lines of a manifest
MaxShortLen == 3    \* longest stream that is too short to be sniffed

----------------------------------------------------------------------------
(* Bytes *)

NL == "\n"
GT == ">"
AT == "@"
PLUS == "+"
SP == " "
TAB == "\t"
CR == "\r"
XFF == "0xFF"       \* the byte 0xFF, which no UTF-8 text holds
X1F == "0x1F"       \* the gzip magic number is 0x1F 0x8B
X8B == "0x8B"       \* as the first byte of a character it is no UTF-8
X08 == "0x08"       \* the compression method byte of a gzip header: deflate
X00 == "0x00"       \* the flag byte of a gzip header
SLASH == "/"
HASH == "#"

RawAlphabet == {GT, AT, PLUS, NL, SP, "A"}

\* char::is_whitespace on a byte cast to char (the bytes of it that the model uses)
Whitespace == {SP, TAB, NL, CR}

is_whitespace(b) == b \in Whitespace

\* String::from_utf8(bytes).is_ok(), for the bytes that the model uses
from_utf8_is_ok(bytes) ==
    /\ \A k \in 1..Len(bytes) : bytes[k] # XFF
    /\ \A k \in 1..Len(bytes) : bytes[k] = X8B => (k > 1 /\ bytes[k - 1] = XFF)

Min(S) == CHOOSE x \in S : \A y \in S : x <= y

\* every sequence over S of length 0..n
RECURSIVE SeqsUpTo(_, _)
SeqsUpTo(S, n) ==
    IF n = 0 THEN {<<>>}
    ELSE LET shorter == SeqsUpTo(S, n - 1)
         IN shorter \cup {Append(s, b) : s \in {t \in shorter : Len(t) = n - 1}, b \in S}

RECURSIVE Concat(_)
Concat(ss) == IF ss = <<>> THEN <<>> ELSE Head(ss) \o Concat(Tail(ss))

----------------------------------------------------------------------------
(* The buffered source: io::BufRead as the Reader uses it *)

\* the chunkings of a stream of n bytes: all at once (a Cursor), uniform chunks
\* of 1..MaxChunk bytes, and the 4 peeked bytes chained in front of the rest
CutSets(n) ==
    {{}} \cup {{4}} \cup {{k \in 1..n : k % s = 0} : s \in 1..MaxChunk}

\* intr holds the stream positions at which the next fill_buf call fails once
\* with ErrorKind::Interrupted
NewSource(bytes, cuts) ==
    [src |-> bytes, cuts |-> cuts, pos |-> 0, data |-> <<>>, intr |-> {}]

\* the fill_buf call made now returns Err(Interrupted)
Interrupted(r) == r.pos \in r.intr

\* the source after that call: the interruption is over
Resume(r) == [r EXCEPT !.intr = @ \ {r.pos}]

\* absolute end of the chunk that fill_buf shows at the current position
ChunkEnd(r) ==
    LET later == {c \in r.cuts : c > r.pos /\ c < Len(r.src)}
    IN IF later = {} THEN Len(r.src) ELSE Min(later)

fill_buf(r) == SubSeq(r.src, r.pos + 1, ChunkEnd(r))

consume(r, n) == [r EXCEPT !.pos = @ + n]

\* 0-based index of the first byte of avail at or after s that is in set, -1 if none
NextMatch(avail, set, s) ==
    LET hits == {i \in s..(Len(avail) - 1) : avail[i + 1] \in set}
    IN IF hits = {} THEN -1 ELSE Min(hits)

\* SubSeq with Rust's 0-based half-open range a[s..e]
Slice(a, s, e) == SubSeq(a, s + 1, e)

----------------------------------------------------------------------------
(* std BufRead::read_until, which Reader::read_line calls *)

\* one turn of its loop: i is the 0-based place of delim in available, or -1
buf_read_until_used(available, i) == IF i # -1 THEN i + 1 ELSE Len(available)

RECURSIVE buf_read_until(_, _, _)
buf_read_until_turn(r, delim, read, available, used, done) ==
    IF done \/ used = 0
    THEN [r |-> [r EXCEPT !.pos = @ + used, !.data = @ \o Slice(available, 0, used)],
          n |-> read + used]
    ELSE buf_read_until([r EXCEPT !.pos = @ + used, !.data = @ \o Slice(available, 0, used)],
                        delim, read + used)

buf_read_until_chunk(r, delim, read, available, i) ==
    buf_read_until_turn(r, delim, read, available, buf_read_until_used(available, i), i # -1)

buf_read_until_fill(r, delim, read, available) ==
    buf_read_until_chunk(r, delim, read, available, NextMatch(available, {delim}, 0))

buf_read_until(r, delim, read) ==
    IF Interrupted(r) THEN buf_read_until(Resume(r), delim, read)
    ELSE buf_read_until_fill(r, delim, read, fill_buf(r))

\* what read_line makes of the n bytes that BufRead::read_until appended
RECURSIVE read_line(_, _)
read_line_after(got, popped, skip_blank_line) ==
    IF got.n = 0 THEN [r |-> got.r, n |-> 0]
    ELSE IF ~popped THEN [r |-> got.r, n |-> got.n]
    ELSE IF got.n - 1 # 0 \/ ~skip_blank_line
    THEN [r |-> [got.r EXCEPT !.data = Slice(@, 0, Len(@) - 1)], n |-> got.n - 1]
    ELSE read_line([got.r EXCEPT !.data = Slice(@, 0, Len(@) - 1)], skip_blank_line)

last_is(data, b) == data # <<>> /\ data[Len(data)] = b

read_line_popped(got) == got.n # 0 /\ last_is(got.r.data, NL)

read_line_got(got, skip_blank_line) ==
    read_line_after(got, read_line_popped(got), skip_blank_line)

read_line(r, skip_blank_line) == read_line_got(buf_read_until(r, NL, 0), skip_blank_line)

----------------------------------------------------------------------------
(* Reader::read_until *)

\* read_until_scan with the newline taken for the delimiter: the body ends at
\* the end of its first line
read_until_scan_first_line(available, delim, s, data, read) ==
    LET i == NextMatch(available, {delim, NL}, s)
    IN IF i = -1
       THEN [done |-> FALSE, used |-> Len(available),
             data |-> data \o Slice(available, s, Len(available)),
             read |-> read + Len(available) - s]
       ELSE [done |-> TRUE, used |-> i,
             data |-> data \o Slice(available, s, i), read |-> read + i - s]

\* the inner loop over the memchr2 matches of one chunk
RECURSIVE read_until_scan(_, _, _, _, _)
read_until_scan(available, delim, s, data, read) ==
    LET i == NextMatch(available, {delim, NL}, s)
    IN IF i = -1
       THEN [done |-> FALSE, used |-> Len(available),
             data |-> data \o Slice(available, s, Len(available)),
             read |-> read + Len(available) - s]
       ELSE IF available[i + 1] = delim
       THEN [done |-> TRUE, used |-> i,
             data |-> data \o Slice(available, s, i), read |-> read + i - s]
       ELSE read_until_scan(available, delim, i + 1,
                            data \o Slice(available, s, i), read + i - s)

RECURSIVE read_until_loop(_, _, _)
read_until_turn(r, delim, sc) ==
    IF sc.done \/ sc.used = 0
    THEN [r |-> [r EXCEPT !.pos = @ + sc.used, !.data = sc.data], n |-> sc.read]
    ELSE read_until_loop([r EXCEPT !.pos = @ + sc.used, !.data = sc.data], delim, sc.read)

read_until_loop(r, delim, read) ==
    IF Interrupted(r) THEN read_until_loop(Resume(r), delim, read)
    ELSE read_until_turn(r, delim, read_until_scan(fill_buf(r), delim, 0, r.data, read))

read_until(r, delim) == read_until_loop(r, delim, 0)

----------------------------------------------------------------------------
(* Reader::read_exact *)

\* read_exact_scan that stops at the first newline: the quality is one line
read_exact_scan_one_line(available, len, s, data, read) ==
    LET i == NextMatch(available, {NL}, s)
        e == len - read + s
    IN IF i # -1
       THEN IF read + i - s >= len
            THEN [done |-> TRUE, used |-> e,
                  data |-> data \o Slice(available, s, e), read |-> len]
            ELSE [done |-> TRUE, used |-> i,
                  data |-> data \o Slice(available, s, i), read |-> read + i - s]
       ELSE IF Len(available) - s + read >= len
            THEN [done |-> TRUE, used |-> e,
                  data |-> data \o Slice(available, s, e), read |-> len]
            ELSE [done |-> FALSE, used |-> Len(available),
                  data |-> data \o Slice(available, s, Len(available)),
                  read |-> read + Len(available) - s]

RECURSIVE read_exact_scan(_, _, _, _, _)
read_exact_scan(available, len, s, data, read) ==
    LET i == NextMatch(available, {NL}, s)
        e == len - read + s
    IN IF i # -1
       THEN IF read + i - s >= len
            THEN [done |-> TRUE, used |-> e,
                  data |-> data \o Slice(available, s, e), read |-> len]
            ELSE read_exact_scan(available, len, i + 1,
                                 data \o Slice(available, s, i), read + i - s)
       ELSE IF Len(available) - s + read >= len
            THEN [done |-> TRUE, used |-> e,
                  data |-> data \o Slice(available, s, e), read |-> len]
            ELSE [done |-> FALSE, used |-> Len(available),
                  data |-> data \o Slice(available, s, Len(available)),
                  read |-> read + Len(available) - s]

RECURSIVE read_exact_loop(_, _, _)
read_exact_turn(r, len, sc) ==
    IF sc.done \/ sc.used = 0
    THEN [r |-> [r EXCEPT !.pos = @ + sc.used, !.data = sc.data], n |-> sc.read]
    ELSE read_exact_loop([r EXCEPT !.pos = @ + sc.used, !.data = sc.data], len, sc.read)

read_exact_loop(r, len, read) ==
    IF Interrupted(r) THEN read_exact_loop(Resume(r), len, read)
    ELSE read_exact_turn(r, len, read_exact_scan(fill_buf(r), len, 0, r.data, read))

read_exact(r, len) == read_exact_loop(r, len, 0)

----------------------------------------------------------------------------
(* Reader::has_data_left *)

\* what has_data_left answers: Ok(b), or Err(ParseError::Io(_)) when err
HasData(r, b) == [r |-> r, b |-> b, err |-> FALSE]
HasDataErr(r) == [r |-> r, b |-> FALSE, err |-> TRUE]

\* has_data_left that consumes the chunk it looked at, data or not
RECURSIVE has_data_left_eats_chunk(_)
has_data_left_eats_chunk(r) ==
    IF Interrupted(r) THEN HasDataErr(Resume(r))
    ELSE LET available == fill_buf(r)
         IN IF \E k \in 1..Len(available) : ~is_whitespace(available[k])
            THEN HasData(consume(r, Len(available)), TRUE)
            ELSE IF available = <<>> THEN HasData(r, FALSE)
            ELSE has_data_left_eats_chunk(consume(r, Len(available)))

\* has_data_left that looks at one chunk only
has_data_left_one_chunk(r) ==
    IF Interrupted(r) THEN HasDataErr(Resume(r))
    ELSE LET available == fill_buf(r)
         IN IF \E k \in 1..Len(available) : ~is_whitespace(available[k])
            THEN HasData(r, TRUE)
            ELSE HasData(consume(r, Len(available)), FALSE)

\* fill_buf().map_err(ParseError::Io)? returns every error of fill_buf, an
\* Interrupted one too
RECURSIVE has_data_left(_)
has_data_left(r) ==
    IF Interrupted(r) THEN HasDataErr(Resume(r))
    ELSE LET available == fill_buf(r)
         IN IF \E k \in 1..Len(available) : ~is_whitespace(available[k])
            THEN HasData(r, TRUE)
            ELSE IF available = <<>> THEN HasData(r, FALSE)
            ELSE has_data_left(consume(r, Len(available)))

----------------------------------------------------------------------------
(* Fastx: the record view and its accessors *)

head(fx) == Slice(fx.data, 1, fx._head)
seq(fx) == Slice(fx.data, fx._des, fx._seq)
des(fx) == IF fx._head < fx._des THEN Slice(fx.data, fx._head, fx._des) ELSE <<>>
sep(fx) == IF fx._seq < fx._sep THEN Slice(fx.data, fx._seq, fx._sep) ELSE <<>>
qual(fx) == IF fx._sep < fx._qual THEN Slice(fx.data, fx._sep, fx._qual) ELSE <<>>
len(fx) == fx._seq - fx._des
is_empty(fx) == len(fx) = 0
is_fasta(fx) == fx.data # <<>> /\ fx.data[1] = GT
is_fastq(fx) == fx.data # <<>> /\ fx.data[1] = AT

\* validate_fastq without the comparison of the two lengths
validate_fastq_any_length(fx) == is_fastq(fx) /\ ~is_empty(fx) /\ fx._head > 1

validate_fastq(fx) ==
    is_fastq(fx) /\ ~is_empty(fx) /\ fx._seq - fx._des = fx._qual - fx._sep /\ fx._head > 1

validate_fasta(fx) == is_fasta(fx) /\ ~is_empty(fx) /\ fx._head > 1

----------------------------------------------------------------------------
(* Reader::iter_record *)

\* the result of one call: kind is "Record" for Ok(Some(_)), "None" for Ok(None),
\* the name of the ParseError ("Io" carries an io::Error of kind Interrupted,
\* the one failure of the source that the model has), or "Panic" when the call
\* unwinds; msg is the text
\* an error carries; rest is the stream position reached by the structural
\* reads, before has_data_left
Result(kind, data, h, d, s, p, q, msg, rest) ==
    [kind |-> kind, data |-> data, _head |-> h, _des |-> d, _seq |-> s,
     _sep |-> p, _qual |-> q, msg |-> msg, rest |-> rest]

\* Err(kind(String::from_utf8(data.to_owned()).unwrap())): the unwrap panics
\* when data is no UTF-8
ErrOfData(kind, data, h, d, s, p, q, rest) ==
    IF from_utf8_is_ok(data)
    THEN Result(kind, data, h, d, s, p, q, data, rest)
    ELSE Result("Panic", data, h, d, s, p, q, <<>>, rest)

\* is_truncated without the test for an empty quality
is_truncated_ignores_quality(data_left, fasta, h, d, s, p, q) ==
    ~data_left /\ (h = 1 \/ s = d \/ (~fasta /\ p = s))

\* is_truncated that takes any quality shorter than the sequence for a cut
is_truncated_short_quality(data_left, fasta, h, d, s, p, q) ==
    ~data_left /\ (h = 1 \/ s = d \/ (~fasta /\ (p = s \/ q - p < s - d)))

\* the condition under which a parsed record is reported as truncated
is_truncated(data_left, fasta, h, d, s, p, q) ==
    ~data_left /\ (h = 1 \/ s = d \/ (~fasta /\ (p = s \/ q = p)))

\* lines 319-340: truncated, malformed, or a record.  left is what
\* has_data_left answered, rest the stream position it was asked at
iter_record_classify(left, rest, fasta, h, d, s, p, q) ==
    IF left.err
    THEN [r |-> left.r, res |-> Result("Io", left.r.data, h, d, s, p, q, <<>>, rest)]
    ELSE IF is_truncated(left.b, fasta, h, d, s, p, q)
    THEN [r |-> left.r,
          res |-> ErrOfData("TruncateFile", left.r.data, h, d, s, p, q, rest)]
    ELSE IF fasta /\ ~validate_fasta([data |-> left.r.data, _head |-> h, _des |-> d,
                                       _seq |-> s, _sep |-> p, _qual |-> q])
    THEN [r |-> left.r,
          res |-> Result("InvalidFasta", left.r.data, h, d, s, p, q,
                         Slice(left.r.data, 1, h), rest)]
    ELSE IF ~(fasta \/ validate_fastq([data |-> left.r.data, _head |-> h, _des |-> d,
                                       _seq |-> s, _sep |-> p, _qual |-> q]))
    THEN [r |-> left.r,
          res |-> Result("InvalidFastq", left.r.data, h, d, s, p, q,
                         Slice(left.r.data, 1, h), rest)]
    ELSE [r |-> left.r, res |-> Result("Record", left.r.data, h, d, s, p, q, <<>>, rest)]

\* line 316: the quality, ql is what read_exact answered
iter_record_qual(ql, fasta, h, d, s, p) ==
    iter_record_classify(has_data_left(ql.r), ql.r.pos, fasta, h, d, s, p, p + ql.n)

\* line 315: the separator line, sl is what read_line answered
iter_record_sep(sl, fasta, h, d, s) ==
    iter_record_qual(IF fasta THEN sl ELSE read_exact(sl.r, s - d), fasta, h, d, s, s + sl.n)

\* lines 310-314: the sequence, body is what read_until answered
iter_record_seq(body, fasta, h, d) ==
    iter_record_sep(IF fasta THEN [r |-> body.r, n |-> 0] ELSE read_line(body.r, TRUE),
                    fasta, h, d, d + body.n)

\* lines 301-305: the end of the identifier, ws is the place of the first
\* whitespace byte of the header line, or -1
iter_record_head(ws, d) == IF ws = -1 THEN d ELSE ws

\* iter_record_header that looks at the tag only after the body was read
iter_record_header_reads_on(hl) ==
    IF hl.n = 0
    THEN [r |-> hl.r, res |-> Result("None", hl.r.data, 0, 0, 0, 0, 0, <<>>, hl.r.pos)]
    ELSE IF hl.r.data[1] # GT /\ hl.r.data[1] # AT
    THEN [r |-> read_until(hl.r, GT).r,
          res |-> ErrOfData("InvalidFastx", hl.r.data, 0, 0, 0, 0, 0, hl.r.pos)]
    ELSE iter_record_seq(read_until(hl.r, IF hl.r.data[1] = GT THEN GT ELSE PLUS),
                         hl.r.data[1] = GT,
                         iter_record_head(NextMatch(hl.r.data, Whitespace, 0), hl.n),
                         hl.n)

\* lines 291-314: hl is what read_line answered for the header line
iter_record_header(hl) ==
    IF hl.n = 0
    THEN [r |-> hl.r, res |-> Result("None", hl.r.data, 0, 0, 0, 0, 0, <<>>, hl.r.pos)]
    ELSE IF hl.r.data[1] # GT /\ hl.r.data[1] # AT
    THEN [r |-> hl.r,
          res |-> ErrOfData("InvalidFastx", hl.r.data, 0, 0, 0, 0, 0, hl.r.pos)]
    ELSE iter_record_seq(read_until(hl.r, IF hl.r.data[1] = GT THEN GT ELSE PLUS),
                         hl.r.data[1] = GT,
                         iter_record_head(NextMatch(hl.r.data, Whitespace, 0), hl.n),
                         hl.n)

\* iter_record without self.data.clear()
iter_record_keeps_data(r) == iter_record_header(read_line(r, TRUE))

\* line 288 clears the buffer, line 290 reads the header line
iter_record(r) == iter_record_header(read_line([r EXCEPT !.data = <<>>], TRUE))

----------------------------------------------------------------------------
(* Readers::iter_record *)

\* Readers::new()
Readers_new == [index |-> 0, readers |-> <<>>]

\* what one call answers: the Readers after it, the result, the 0-based place
\* of the Reader that gave the result (-1 when none did) and the places of
\* the Readers that were asked has_data_left
ReadersAnswer(rs, res, from, probed) ==
    [rs |-> rs, res |-> res, from |-> from, probed |-> probed]

\* Readers::iter_record that sets the exhausted Reader aside but does not move on:
\* it answers end-of-stream as soon as one Reader is exhausted
readers_iter_record_stops(rs, idx, probed) ==
    IF idx >= Len(rs.readers)
    THEN ReadersAnswer(rs, Result("None", <<>>, 0, 0, 0, 0, 0, <<>>, 0), -1, probed)
    ELSE LET left == has_data_left(rs.readers[idx + 1])
             call == iter_record(left.r)
         IN IF left.err
            THEN ReadersAnswer([rs EXCEPT !.readers[idx + 1] = left.r],
                               Result("Io", <<>>, 0, 0, 0, 0, 0, <<>>, left.r.pos),
                               idx, probed \cup {idx})
            ELSE IF left.b
            THEN ReadersAnswer([rs EXCEPT !.readers[idx + 1] = call.r], call.res,
                               idx, probed \cup {idx})
            ELSE ReadersAnswer([rs EXCEPT !.readers[idx + 1] = left.r, !.index = @ + 1],
                               Result("None", <<>>, 0, 0, 0, 0, 0, <<>>, 0), -1,
                               probed \cup {idx})

\* line 368: the Reader at idx has data and is asked for its next record
readers_iter_record_gave(rs, idx, probed, call) ==
    ReadersAnswer([rs EXCEPT !.readers[idx + 1] = call.r], call.res, idx, probed)

\* lines 366-373: the loop, idx is the place of the Reader asked next
RECURSIVE readers_iter_record_loop(_, _, _)
readers_iter_record_asked(rs, idx, probed, left) ==
    IF left.err
    THEN ReadersAnswer([rs EXCEPT !.readers[idx + 1] = left.r],
                       Result("Io", <<>>, 0, 0, 0, 0, 0, <<>>, left.r.pos), idx, probed)
    ELSE IF left.b
    THEN readers_iter_record_gave(rs, idx, probed, iter_record(left.r))
    ELSE readers_iter_record_loop([rs EXCEPT !.readers[idx + 1] = left.r, !.index = @ + 1],
                                  idx + 1, probed)

readers_iter_record_loop(rs, idx, probed) ==
    IF idx >= Len(rs.readers)
    THEN ReadersAnswer(rs, Result("None", <<>>, 0, 0, 0, 0, 0, <<>>, 0), -1, probed)
    ELSE readers_iter_record_asked(rs, idx, probed \cup {idx},
                                   has_data_left(rs.readers[idx + 1]))

\* the range of line 366 taken from the first Reader, not from self.index
readers_iter_record_from_start(rs) == 0

\* the range of line 366 starts at self.index
readers_iter_record_from(rs) == rs.index

readers_iter_record(rs) == readers_iter_record_loop(rs, readers_iter_record_from(rs), {})

----------------------------------------------------------------------------
(* The gzip envelope, as parse_path uses it: flate2's MultiGzDecoder is a   *)
(* filter that gives back the bytes that were compressed.  A compressed    *)
(* stream is a sequence of members; a member is the 4 header bytes 0x1F    *)
(* 0x8B 0x08 0x00 and then the deflated bytes.  The deflated form of byte  *)
(* b is written "z" \o b: it is another byte than b and than any header    *)
(* byte.                                                                   *)

Deflate(b) == "z" \o b

GzHeader == <<X1F, X8B, X08, X00>>

\* the bytes that files hold before compression
FileBytes ==
    {GT, AT, PLUS, NL, SP, TAB, CR, HASH, SLASH, X1F, X8B, X08, X00,
     "A", "C", "G", "T", "!", "0", "1", "2", "3", "4", "5", "6", "7", "8", "9",
     "a", "b", "d", "g", "h", "n", "s", "t", "x"}

\* a stream compressed twice holds the deflated form of deflated bytes
Deflatable == FileBytes \cup {Deflate(b) : b \in FileBytes}

IsDeflated(c) == \E b \in Deflatable : Deflate(b) = c

Inflate(c) == CHOOSE b \in Deflatable : Deflate(b) = c

gzip(bytes) == GzHeader \o [k \in 1..Len(bytes) |-> Deflate(bytes[k])]

\* 1-based place behind the last deflated byte of the member that starts s
MemberEnd(s) ==
    LET ends == {k \in 5..Len(s) : ~IsDeflated(s[k])}
    IN IF ends = {} THEN Len(s) + 1 ELSE Min(ends)

\* everything the decoder gives until the end of s; ok is FALSE when it ends
\* with an error instead: bytes that are no member follow
RECURSIVE MultiGzDecoder(_)
MultiGzDecoder_member(s, e, later) ==
    [bytes |-> [k \in 1..(e - 5) |-> Inflate(s[k + 4])] \o later.bytes, ok |-> later.ok]

MultiGzDecoder(s) ==
    IF s = <<>> THEN [bytes |-> <<>>, ok |-> TRUE]
    ELSE IF Len(s) < 4 \/ SubSeq(s, 1, 4) # GzHeader THEN [bytes |-> <<>>, ok |-> FALSE]
    ELSE MultiGzDecoder_member(s, MemberEnd(s),
                               MultiGzDecoder(SubSeq(s, MemberEnd(s), Len(s))))

----------------------------------------------------------------------------
(* parse_path.  The file system is a function fs from paths to the bytes of *)
(* the file at that path; chunk is the number of bytes that a read of a    *)
(* file or of the decoder gives at most (0: all there is).                 *)

ChunkCuts(chunk, n) == IF chunk = 0 THEN {} ELSE {k \in 1..n : k % chunk = 0}

\* BufReader::with_capacity(65536, _) over a stream of these bytes
BufReader(bytes, chunk) == NewSource(bytes, ChunkCuts(chunk, Len(bytes)))

\* read_exact that fills what is missing with the zeros the array was made of
io_read_exact_pads(r, n) ==
    LET got == SubSeq(r.src, r.pos + 1, Min({r.pos + n, Len(r.src)}))
    IN [ok |-> TRUE, r |-> [r EXCEPT !.pos = Min({r.pos + n, Len(r.src)})],
        bytes |-> got \o [k \in 1..(n - Len(got)) |-> X00]]

\* Read::read_exact of n bytes: Err(UnexpectedEof) when fewer are left
io_read_exact(r, n) ==
    IF Len(r.src) - r.pos < n
    THEN [ok |-> FALSE, r |-> [r EXCEPT !.pos = Len(r.src)], bytes |-> <<>>]
    ELSE [ok |-> TRUE, r |-> consume(r, n), bytes |-> SubSeq(r.src, r.pos + 1, r.pos + n)]

\* the rest of the stream taken for the whole of it: the sniffed bytes are lost
chain_forgets(first, r) ==
    [src |-> SubSeq(r.src, r.pos + 1, Len(r.src)),
     cuts |-> {c - r.pos : c \in {c \in r.cuts : c > r.pos}},
     pos |-> 0, data |-> <<>>, intr |-> {}]

\* Cursor::new(first).chain(r): the bytes of first, then what r has left
chain(first, r) ==
    [src |-> first \o SubSeq(r.src, r.pos + 1, Len(r.src)),
     cuts |-> {Len(first)} \cup {c - r.pos + Len(first) : c \in {c \in r.cuts : c > r.pos}},
     pos |-> 0, data |-> <<>>, intr |-> {}]

\* what parse_path answers
PathsReader(r) == [kind |-> "Reader", reader |-> r, readers |-> <<>>, err |-> "", arg |-> <<>>]
PathsReaders(rs) == [kind |-> "Readers", reader |-> <<>>, readers |-> rs, err |-> "", arg |-> <<>>]
PathsErr(err, arg) == [kind |-> "Err", reader |-> <<>>, readers |-> <<>>, err |-> err, arg |-> arg]
PathsPanic == [kind |-> "Panic", reader |-> <<>>, readers |-> <<>>, err |-> "", arg |-> <<>>]

\* BufRead::lines: a line ends with "\n", which is taken off, and so is a
\* "\r" before it
lines_strip(line) ==
    IF last_is(line, NL)
    THEN (IF last_is(Slice(line, 0, Len(line) - 1), CR)
          THEN Slice(line, 0, Len(line) - 2) ELSE Slice(line, 0, Len(line) - 1))
    ELSE line

RECURSIVE buf_lines(_)
lines_at(bytes, i) ==
    IF i = -1 THEN <<lines_strip(bytes)>>
    ELSE <<lines_strip(Slice(bytes, 0, i + 1))>> \o buf_lines(Slice(bytes, i + 1, Len(bytes)))

buf_lines(bytes) == IF bytes = <<>> THEN <<>> ELSE lines_at(bytes, NextMatch(bytes, {NL}, 0))

\* str::trim
RECURSIVE trim_start(_)
trim_start(s) == IF s # <<>> /\ is_whitespace(s[1]) THEN trim_start(Tail(s)) ELSE s

RECURSIVE trim_end(_)
trim_end(s) ==
    IF s # <<>> /\ is_whitespace(s[Len(s)]) THEN trim_end(Slice(s, 0, Len(s) - 1)) ELSE s

trim(s) == trim_end(trim_start(s))

\* Path::parent: the path without its last component
parent(path) ==
    LET slashes == {k \in 1..Len(path) : path[k] = SLASH}
    IN IF slashes = {} THEN <<>>
       ELSE SubSeq(path, 1, (CHOOSE k \in slashes : \A j \in slashes : j <= k) - 1)

\* Path::join
join(dir, line) ==
    IF line # <<>> /\ line[1] = SLASH THEN line
    ELSE IF dir = <<>> THEN line
    ELSE dir \o <<SLASH>> \o line

exists(fs, path) == path \in DOMAIN fs

\* line 90 without the test for '#'
is_skipped_blank_only(line) == line = <<>>

\* line 90: the lines that name no path
is_skipped(line) == (line # <<>> /\ line[1] = HASH) \/ line = <<>>

\* the format bytes kept from before the decoder was put in
format_bytes_stale(before, after) == before

\* lines 75-77: the format bytes are read again from the decompressed stream
format_bytes_after_gz(before, after) == after

RECURSIVE parse_path(_, _, _)
RECURSIVE parse_path_lines(_, _, _, _, _)

\* lines 95-98: got is what parse_path answered for the path of a line
parse_path_entry(fs, dir, ls, acc, chunk, got) ==
    IF got.kind \in {"Err", "Panic"} THEN got
    ELSE IF got.kind = "Reader" THEN parse_path_lines(fs, dir, ls, Append(acc, got.reader), chunk)
    ELSE PathsPanic

\* lines 89-104: line is a line of the manifest, trimmed
parse_path_line(fs, dir, ls, acc, chunk, line) ==
    IF is_skipped(line) THEN parse_path_lines(fs, dir, ls, acc, chunk)
    ELSE IF exists(fs, join(dir, line))
    THEN parse_path_entry(fs, dir, ls, acc, chunk, parse_path(fs, join(dir, line), chunk))
    ELSE PathsErr("InvalidData", join(dir, line))

\* lines 88-106: ls are the lines still to read, acc the Readers pushed so far;
\* l.unwrap() panics on a line that is no UTF-8
parse_path_lines(fs, dir, ls, acc, chunk) ==
    IF ls = <<>> THEN PathsReaders(acc)
    ELSE IF ~from_utf8_is_ok(ls[1]) THEN PathsPanic
    ELSE parse_path_line(fs, dir, Tail(ls), acc, chunk, trim(ls[1]))

\* lines 80-108: r is the stream to read, format_bytes its first 4 bytes
parse_path_match(fs, path, chunk, r, format_bytes) ==
    IF format_bytes[1] \in {AT, GT} THEN PathsReader(r)
    ELSE parse_path_lines(fs, parent(path), buf_lines(r.src), <<>>, chunk)

\* lines 76-77: sniffed is what read_exact answered on the decompressed stream
parse_path_gz_sniffed(fs, path, chunk, before, sniffed) ==
    IF ~sniffed.ok THEN PathsErr("UnexpectedEof", <<>>)
    ELSE parse_path_match(fs, path, chunk, chain(sniffed.bytes, sniffed.r),
                          format_bytes_after_gz(before, sniffed.bytes))

\* line 74: decoded is what the decoder gives of the chained stream
parse_path_gz(fs, path, chunk, before, decoded) ==
    IF ~decoded.ok /\ Len(decoded.bytes) < 4 THEN PathsErr("InvalidInput", <<>>)
    ELSE parse_path_gz_sniffed(fs, path, chunk, before,
                               io_read_exact(BufReader(decoded.bytes, chunk), 4))

\* lines 71-78: r is the file with its first 4 bytes put back in front
parse_path_chained(fs, path, chunk, r, format_bytes) ==
    IF SubSeq(format_bytes, 1, 2) = <<X1F, X8B>>
    THEN parse_path_gz(fs, path, chunk, format_bytes, MultiGzDecoder(r.src))
    ELSE parse_path_match(fs, path, chunk, r, format_bytes)

\* lines 69-71: sniffed is what read_exact answered on the file
parse_path_sniffed(fs, path, chunk, sniffed) ==
    IF ~sniffed.ok THEN PathsErr("UnexpectedEof", <<>>)
    ELSE parse_path_chained(fs, path, chunk, chain(sniffed.bytes, sniffed.r), sniffed.bytes)

\* lines 60-70: File::open fails on a path that does not exist
parse_path(fs, path, chunk) ==
    IF ~exists(fs, path) THEN PathsErr("NotFound", path)
    ELSE parse_path_sniffed(fs, path, chunk, io_read_exact(BufReader(fs[path], chunk), 4))

----------------------------------------------------------------------------
(* The caller: a Reader over some input, asked for record after record *)

\* a Reader made with Reader::new, that no Readers holds and no parse_path made
Standalone ==
    /\ readers = Readers_new
    /\ paths = [kind |-> "Direct", err |-> "", arg |-> <<>>]

IterRecord ==
    /\ Len(out) < MaxCalls
    /\ IF out = <<>> THEN TRUE ELSE out[Len(out)].kind \notin {"None", "Panic"}
    /\ LET call == iter_record(reader)
       IN /\ reader' = call.r
          /\ out' = Append(out, call.res)
    /\ UNCHANGED <<meta, readers, paths>>

Next == IterRecord

\* a Readers asked for record after record, also after it answered end-of-stream
ReadersIterRecord ==
    /\ Len(out) < MaxCalls
    /\ IF out = <<>> THEN TRUE ELSE out[Len(out)].kind # "Panic"
    /\ LET call == readers_iter_record(readers)
       IN /\ readers' = call.rs
          /\ out' = Append(out, [from |-> call.from, probed |-> call.probed] @@ call.res)
    /\ UNCHANGED <<meta, reader, paths>>

\* the results of calling iter_record on r until end-of-stream, at most fuel times
RECURSIVE RunAll(_, _)
RunAllFrom(call, fuel) ==
    IF call.res.kind = "None" THEN <<call.res>>
    ELSE <<call.res>> \o RunAll(call.r, fuel - 1)

RunAll(r, fuel) == IF fuel = 0 THEN <<>> ELSE RunAllFrom(iter_record(r), fuel)

\* the same for a Readers
RECURSIVE RunAllReaders(_, _)
RunAllReadersFrom(call, fuel) ==
    IF call.res.kind = "None" THEN <<call.res>>
    ELSE <<call.res>> \o RunAllReaders(call.rs, fuel - 1)

RunAllReaders(rs, fuel) ==
    IF fuel = 0 THEN <<>> ELSE RunAllReadersFrom(readers_iter_record(rs), fuel)

----------------------------------------------------------------------------
(* Inputs: arbitrary byte strings *)

InitRaw ==
    /\ \E bytes \in SeqsUpTo(RawAlphabet, MaxRawLen) :
         \E cuts \in CutSets(Len(bytes)) : reader = NewSource(bytes, cuts)
    /\ out = <<>>
    /\ Standalone
    /\ meta = [family |-> "raw", recs |-> <<>>]

SpecRaw == InitRaw /\ [][Next]_vars

----------------------------------------------------------------------------
(* Inputs: streams written record by record in the two wire formats.  A     *)
(* record is described by its parts; one record of a stream may be written *)
(* with a defect.                                                          *)

Headers == {[id |-> <<"1">>, gap |-> <<>>, desc |-> <<>>],
            [id |-> <<"2", "x">>, gap |-> <<SP>>, desc |-> <<"r", TAB, "s">>]}

\* sequence bodies: one line, or two lines
ShortBodies == {<<<<"A">>>>, <<<<"C", "G">>>>, <<<<"A">>, <<"C", "G">>>>}

\* long-form records are written with a bare identifier and one sequence
\* line, or with a description and two sequence lines
LongShapes ==
    {[h |-> [id |-> <<"1">>, gap |-> <<>>, desc |-> <<>>], b |-> <<<<"A">>>>],
     [h |-> [id |-> <<"2", "x">>, gap |-> <<SP>>, desc |-> <<"r", TAB, "s">>],
      b |-> <<<<"A">>, <<"C", "G">>>>]}

\* the first n bytes of base repeated
Cyc(base, n) == [k \in 1..n |-> base[((k - 1) % Len(base)) + 1]]

\* quality of n bytes: on one line and starting with '@', or on two lines the
\* second of which starts with '@'
Quals(n) == {<<Cyc(<<AT, GT, PLUS, "!">>, n)>>,
             <<<<"!">>, Cyc(<<AT, PLUS, GT>>, n - 1)>>}

Rec(tag, h, lines, sepline, qlines) ==
    [tag |-> tag, id |-> h.id, gap |-> h.gap, desc |-> h.desc, lines |-> lines,
     sepline |-> sepline, qlines |-> qlines, nl |-> TRUE, defect |-> "none"]

ShortRecs == {Rec(GT, h, b, <<>>, <<>>) : h \in Headers, b \in ShortBodies}

LongRecs ==
    UNION {{Rec(AT, sh.h, sh.b, <<PLUS>>, q) : q \in Quals(Len(Concat(sh.b)))} :
             sh \in LongShapes}

ShortDefects == {"no_id", "no_seq"}
LongDefects == {"no_id", "no_seq", "hdr_only", "no_sep", "no_qual"}

\* the lines a record is written as
RecLines(rec) ==
    LET hdr == IF rec.defect = "no_id" THEN <<rec.tag>>
               ELSE <<rec.tag>> \o rec.id \o rec.gap \o rec.desc
        body == IF rec.defect \in {"hdr_only", "no_seq"} THEN <<>> ELSE rec.lines
        sp == IF rec.tag = GT \/ rec.defect \in {"hdr_only", "no_sep"}
              THEN <<>> ELSE <<rec.sepline>>
        ql == IF rec.tag = GT \/ rec.defect \in {"hdr_only", "no_sep", "no_qual", "no_seq"}
              THEN <<>>
              ELSE rec.qlines
    IN <<hdr>> \o body \o sp \o ql

RECURSIVE JoinLines(_, _)
JoinLines(ls, nl) ==
    IF Len(ls) = 1 THEN (IF nl THEN Append(ls[1], NL) ELSE ls[1])
    ELSE Append(ls[1], NL) \o JoinLines(Tail(ls), nl)

RecText(rec) == JoinLines(RecLines(rec), rec.nl)

RECURSIVE StreamText(_)
StreamText(recs) == IF recs = <<>> THEN <<>> ELSE RecText(recs[1]) \o StreamText(Tail(recs))

\* streams of 1..MaxRecs records of S; at most one record carries a defect of D,
\* and the last record may lack its final newline
Streams(S, D) ==
    LET plain == SeqsUpTo(S, MaxRecs) \ {<<>>}
        broken == UNION {{[s EXCEPT ![k].defect = d] : k \in 1..Len(s), d \in D} : s \in plain}
    IN {[s EXCEPT ![Len(s)].nl = b] : s \in plain \cup broken, b \in BOOLEAN}

InitStream(family, S, D) ==
    /\ \E recs \in Streams(S, D) :
         /\ meta = [family |-> family, recs |-> recs]
         /\ \E cuts \in CutSets(Len(StreamText(recs))) :
               reader = NewSource(StreamText(recs), cuts)
    /\ out = <<>>
    /\ Standalone

InitShort == InitStream("short", ShortRecs, ShortDefects)
InitLong == InitStream("long", LongRecs, LongDefects)

SpecShort == InitShort /\ [][Next]_vars
SpecLong == InitLong /\ [][Next]_vars

----------------------------------------------------------------------------
(* Inputs: a long-form record whose quality has another length than its     *)
(* sequence (shorter, longer, or none at all), with or without an           *)
(* identifier, alone or followed by well-formed long-form records           *)

Mismatch(id, n, m) ==
    [Rec(AT, [id |-> id, gap |-> <<>>, desc |-> <<>>],
         <<Cyc(<<"A", "C", "G", "T">>, n)>>, <<PLUS>>,
         IF m = 0 THEN <<>> ELSE <<Cyc(<<"!">>, m)>>) EXCEPT !.defect = "qual_len"]

Mismatched ==
    UNION {{Mismatch(id, n, m) : m \in (0..(MaxSeqLen + 1)) \ {n}} :
             id \in {<<"1">>, <<>>}, n \in 1..MaxSeqLen}

InitMismatch ==
    /\ \E first \in Mismatched, rest \in SeqsUpTo(LongRecs, MaxRecs - 1) :
         LET recs == <<first>> \o rest
         IN /\ meta = [family |-> "mismatch", recs |-> recs]
            /\ \E cuts \in CutSets(Len(StreamText(recs))) :
                  reader = NewSource(StreamText(recs), cuts)
    /\ out = <<>>
    /\ Standalone

SpecMismatch == InitMismatch /\ [][Next]_vars

----------------------------------------------------------------------------
(* Inputs: two well-formed records of one format, each with or without its *)
(* final newline, one written after the other                              *)

InitPair ==
    /\ \E S \in {ShortRecs, LongRecs} : \E a \in S, b \in S, na \in BOOLEAN, nb \in BOOLEAN :
         LET recs == <<[a EXCEPT !.nl = na], [b EXCEPT !.nl = nb]>>
         IN /\ meta = [family |-> "pair", recs |-> recs]
            /\ \E cuts \in CutSets(Len(StreamText(recs))) :
                  reader = NewSource(StreamText(recs), cuts)
    /\ out = <<>>
    /\ Standalone

SpecPair == InitPair /\ [][Next]_vars

----------------------------------------------------------------------------
(* Inputs: the streams of the repository's tests and of the specification's *)
(* concrete scenarios, with the outcome each expects of reading the stream *)
(* to its end: "Ok" and the number of bases counted, or the first error    *)

Scenarios ==
    {
     [name |-> "test_normal_one_line_fasta", want |-> "Ok", bases |-> 24,
      bytes |-> <<GT, "1", SP, "r", "e", "c", "o", "r", "d", "1", NL, "A", "T", "G", "C", "A", "T", "G", "C", "A", "T", "G", "C", NL, GT, "2", SP, "r", "e", "c", "o", "r", "d", "2", NL, "A", "T", "G", "C", "A", "T", "G", "C", "A", "T", "G", "C">>],
     [name |-> "test_normal_one_line_fastq", want |-> "Ok", bases |-> 24,
      bytes |-> <<AT, "1", SP, "r", "e", "c", "o", "r", "d", "1", NL, "A", "T", "G", "C", "A", "T", "G", "C", "A", "T", "G", "C", NL, PLUS, NL, AT, AT, AT, AT, AT, AT, AT, AT, AT, AT, AT, AT, NL, AT, "2", SP, "r", "e", "c", "o", "r", "d", "2", NL, "A", "T", "G", "C", "A", "T", "G", "C", "A", "T", "G", "C", NL, PLUS, NL, AT, AT, AT, AT, AT, AT, AT, AT, AT, AT, AT, AT>>],
     [name |-> "test_normal_multi_line_fasta", want |-> "Ok", bases |-> 48,
      bytes |-> <<GT, "1", SP, "r", "e", "c", "o", "r", "d", "1", NL, "A", "T", "G", "C", "A", "T", "G", "C", "A", "T", "G", "C", NL, "A", "T", "G", "C", "A", "T", "G", "C", "A", "T", "G", "C", NL, GT, "2", SP, "r", "e", "c", "o", "r", "d", "2", NL, "A", "T", "G", "C", "A", "T", "G", "C", "A", "T", "G", "C", NL, "A", "T", "G", "C", "A", "T", "G", "C", "A", "T", "G", "C">>],
     [name |-> "test_normal_multi_line_fastq", want |-> "Ok", bases |-> 48,
      bytes |-> <<AT, "1", SP, "r", "e", "c", "o", "r", "d", "1", NL, "A", "T", "G", "C", "A", "T", "G", "C", "A", "T", "G", "C", NL, "A", "T", "G", "C", "A", "T", "G", "C", "A", "T", "G", "C", NL, PLUS, NL, AT, AT, AT, AT, AT, AT, AT, AT, AT, AT, AT, AT, NL, AT, AT, AT, AT, AT, AT, AT, AT, AT, AT, AT, AT, NL, AT, "2", SP, "r", "e", "c", "o", "r", "d", "2", NL, "A", "T", "G", "C", "A", "T", "G", "C", "A", "T", "G", "C", NL, "A", "T", "G", "C", "A", "T", "G", "C", "A", "T", "G", "C", NL, PLUS, NL, AT, AT, AT, AT, AT, AT, AT, AT, AT, AT, AT, AT, AT, AT, AT, AT, AT, AT, AT, AT, AT, AT, AT, AT, NL>>],
     [name |-> "test_truncate_fasta_miss_head", want |-> "TruncateFile", bases |-> 0,
      bytes |-> <<GT, "1", SP, "r", "e", "c", "o", "r", "d", "1", NL, "A", "T", "G", "C", "A", "T", "G", "C", "A", "T", "G", "C", NL, GT>>],
     [name |-> "test_truncate_fasta_miss_seq", want |-> "TruncateFile", bases |-> 0,
      bytes |-> <<GT, "1", SP, "r", "e", "c", "o", "r", "d", "1", NL, "A", "T", "G", "C", "A", "T", "G", "C", "A", "T", "G", "C", "A", "T", "G", "C", "A", "T", "G", "C", "A", "T", "G", "C", NL, GT, "2", SP, "r", "e", "c", "o", "r", "d", "2">>],
     [name |-> "test_truncate_fastq_miss_head", want |-> "TruncateFile", bases |-> 0,
      bytes |-> <<AT, "1", SP, "r", "e", "c", "o", "r", "d", "1", NL, "A", "T", "G", "C", "A", "T", "G", "C", "A", "T", "G", "C", "A", "T", "G", "C", "A", "T", "G", "C", "A", "T", "G", "C", NL, PLUS, NL, AT, AT, AT, AT, AT, AT, AT, AT, AT, AT, AT, AT, AT, AT, AT, AT, AT, AT, AT, AT, AT, AT, AT, AT, NL, AT, NL>>],
     [name |-> "test_truncate_fastq_miss_seq", want |-> "TruncateFile", bases |-> 0,
      bytes |-> <<AT, "1", SP, "r", "e", "c", "o", "r", "d", "1">>],
     [name |-> "test_truncate_fastq_miss_sep", want |-> "TruncateFile", bases |-> 0,
      bytes |-> <<AT, "1", SP, "r", "e", "c", "o", "r", "d", "1", NL, "A", "T", "G", "C", "A", "T", "G", "C", "A", "T", "G", "C", "A", "T", "G", "C", "A", "T", "G", "C", "A", "T", "G", "C">>],
     [name |-> "test_truncate_fastq_miss_qual", want |-> "TruncateFile", bases |-> 0,
      bytes |-> <<AT, "1", SP, "r", "e", "c", "o", "r", "d", "1", NL, "A", "T", "G", "C", "A", "T", "G", "C", "A", "T", "G", "C", "A", "T", "G", "C", "A", "T", "G", "C", "A", "T", "G", "C", NL, PLUS>>],
     [name |-> "test_invalid_fasta_miss_head", want |-> "InvalidFasta", bases |-> 0,
      bytes |-> <<GT, NL, "A", "T", "G", "C", "A", "T", "G", "C", "A", "T", "G", "C", NL, GT, "2", SP, "r", "e", "c", "o", "r", "d", "2", NL, "A", "T", "G", "C", "A", "T", "G", "C", "A", "T", "G", "C">>],
     [name |-> "test_invalid_fasta_miss_seq", want |-> "InvalidFasta", bases |-> 0,
      bytes |-> <<GT, "1", SP, "r", "e", "c", "o", "r", "d", "1", NL, NL, GT, "2", SP, "r", "e", "c", "o", "r", "d", "2", NL, "A", "T", "G", "C", "A", "T", "G", "C", "A", "T", "G", "C">>],
     [name |-> "test_invalid_fasta_with_seq_len_is_0", want |-> "InvalidFasta", bases |-> 0,
      bytes |-> <<GT, "1", SP, "r", "e", "c", "o", "r", "d", "1", NL, NL, GT, "2", SP, "r", "e", "c", "o", "r", "d", "2", NL>>],
     [name |-> "test_invalid_fastq_miss_head", want |-> "InvalidFastq", bases |-> 0,
      bytes |-> <<AT, NL, "A", "T", "G", "C", "A", "T", "G", "C", "A", "T", "G", "C", "A", "T", "G", "C", "A", "T", "G", "C", "A", "T", "G", "C", NL, PLUS, NL, AT, AT, AT, AT, AT, AT, AT, AT, AT, AT, AT, AT, AT, AT, AT, AT, AT, AT, AT, AT, AT, AT, AT, AT, NL, AT, "2", SP, "r", "e", "c", "o", "r", "d", "2", NL, "A", "T", "G", "C", "A", "T", "G", "C", "A", "T", "G", "C", "A", "T", "G", "C", "A", "T", "G", "C", "A", "T", "G", "C", NL, PLUS, NL, AT, AT, AT, AT, AT, AT, AT, AT, AT, AT, AT, AT, AT, AT, AT, AT, AT, AT, AT, AT, AT, AT, AT, AT, NL>>],
     [name |-> "test_invalid_fastq_miss_seq", want |-> "InvalidFastq", bases |-> 0,
      bytes |-> <<AT, "1", SP, "r", "e", "c", "o", "r", "d", "1", NL, AT, AT, AT, AT, AT, AT, AT, AT, AT, AT, AT, AT, AT, AT, AT, AT, AT, AT, AT, AT, AT, AT, AT, AT, NL, AT, "2", SP, "r", "e", "c", "o", "r", "d", "2", NL, "A", "T", "G", "C", "A", "T", "G", "C", "A", "T", "G", "C", "A", "T", "G", "C", "A", "T", "G", "C", "A", "T", "G", "C", NL, PLUS, NL, AT, AT, AT, AT, AT, AT, AT, AT, AT, AT, AT, AT, AT, AT, AT, AT, AT, AT, AT, AT, AT, AT, AT, AT, NL>>],
     [name |-> "test_invalid_fastq_miss_sep", want |-> "InvalidFastq", bases |-> 0,
      bytes |-> <<AT, "1", SP, "r", "e", "c", "o", "r", "d", "1", NL, "A", "T", "G", "C", "A", "T", "G", "C", "A", "T", "G", "C", "A", "T", "G", "C", "A", "T", "G", "C", "A", "T", "G", "C", NL, AT, AT, AT, AT, AT, AT, AT, AT, AT, AT, AT, AT, AT, AT, AT, AT, AT, AT, AT, AT, AT, AT, AT, AT, NL, AT, "2", SP, "r", "e", "c", "o", "r", "d", "2", NL, "A", "T", "G", "C", "A", "T", "G", "C", "A", "T", "G", "C", "A", "T", "G", "C", "A", "T", "G", "C", "A", "T", "G", "C", NL, PLUS, NL, AT, AT, AT, AT, AT, AT, AT, AT, AT, AT, AT, AT, AT, AT, AT, AT, AT, AT, AT, AT, AT, AT, AT, AT, NL>>],
     [name |-> "test_invalid_fastq_miss_qual", want |-> "InvalidFastq", bases |-> 0,
      bytes |-> <<AT, "1", SP, "r", "e", "c", "o", "r", "d", "1", NL, "A", "T", "G", "C", "A", "T", "G", "C", "A", "T", "G", "C", "A", "T", "G", "C", "A", "T", "G", "C", "A", "T", "G", "C", NL, AT, "2", SP, "r", "e", "c", "o", "r", "d", "2", NL, "A", "T", "G", "C", "A", "T", "G", "C", "A", "T", "G", "C", "A", "T", "G", "C", "A", "T", "G", "C", "A", "T", "G", "C", NL, PLUS, NL, AT, AT, AT, AT, AT, AT, AT, AT, AT, AT, AT, AT, AT, AT, AT, AT, AT, AT, AT, AT, AT, AT, AT, AT, NL>>],
     [name |-> "test_invalid_fastq_seq_has_diff_len_with_qual", want |-> "InvalidFastx", bases |-> 0,
      bytes |-> <<AT, "1", SP, "r", "e", "c", "o", "r", "d", "1", NL, "A", "T", "G", "C", "A", "T", "G", "C", "A", "T", "G", "C", "A", "T", "G", "C", "A", "T", "G", "C", "A", "T", "G", "C", NL, PLUS, NL, AT, AT, AT, AT, AT, AT, AT, AT, AT, AT, AT, AT, AT, AT, AT, AT, AT, AT, AT, AT, AT, AT, AT, NL, AT, "2", SP, "r", "e", "c", "o", "r", "d", "2", NL, "A", "T", "G", "C", "A", "T", "G", "C", "A", "T", "G", "C", "A", "T", "G", "C", "A", "T", "G", "C", "A", "T", "G", "C", NL, PLUS, NL, AT, AT, AT, AT, AT, AT, AT, AT, AT, AT, AT, AT, AT, AT, AT, AT, AT, AT, AT, AT, AT, AT, AT, NL>>],
     [name |-> "test_invalid_fastq_with_seq_len_is_0", want |-> "InvalidFastq", bases |-> 0,
      bytes |-> <<AT, "1", SP, "r", "e", "c", "o", "r", "d", "1", NL, NL, PLUS, NL, NL, AT, "2", SP, "r", "e", "c", "o", "r", "d", "2", NL, NL, PLUS, NL, NL>>],
     [name |-> "spec_fasta_two", want |-> "Ok", bases |-> 8,
      bytes |-> <<GT, "1", SP, "r", "e", "c", "1", NL, "A", "T", "G", "C", NL, GT, "2", SP, "r", "e", "c", "2", NL, "A", "T", "G", "C">>],
     [name |-> "spec_fastq_one", want |-> "Ok", bases |-> 4,
      bytes |-> <<AT, "1", SP, "r", "e", "c", "1", NL, "A", "T", "G", "C", NL, PLUS, NL, "!", "!", "!", "!", NL>>],
     [name |-> "spec_truncated_header_only", want |-> "TruncateFile", bases |-> 0,
      bytes |-> <<AT, "i", "d">>],
     [name |-> "spec_truncated_no_separator", want |-> "TruncateFile", bases |-> 0,
      bytes |-> <<AT, "i", "d", NL, "S", "E", "Q", "S", "E", "Q">>],
     [name |-> "spec_truncated_no_quality", want |-> "TruncateFile", bases |-> 0,
      bytes |-> <<AT, "i", "d", NL, "S", "E", "Q", "S", "E", "Q", NL, PLUS>>]
    }

\* the tests read from a Cursor, which shows all its bytes at once; parse_path
\* chains the 4 peeked bytes in front of the rest
ScenarioCuts == {{}, {4}}

InitScenario ==
    /\ \E sc \in Scenarios :
         /\ meta = [family |-> "scenario", recs |-> <<>>, name |-> sc.name,
                    want |-> sc.want, bases |-> sc.bases]
         /\ \E cuts \in ScenarioCuts : reader = NewSource(sc.bytes, cuts)
    /\ out = <<>>
    /\ Standalone

SpecScenario == InitScenario /\ [][Next]_vars

\* count_base of the tests: the first error met, or "Ok" once end-of-stream is met
RECURSIVE count_base(_)
count_base(results) ==
    IF results = <<>> THEN [kind |-> "Running", bases |-> 0]
    ELSE IF results[1].kind = "None" THEN [kind |-> "Ok", bases |-> 0]
    ELSE IF results[1].kind # "Record" THEN [kind |-> results[1].kind, bases |-> 0]
    ELSE LET later == count_base(Tail(results))
         IN [later EXCEPT !.bases = @ + len(results[1])]

\* every test of the repository passes
TestsPass ==
    meta.family = "scenario" =>
       LET got == count_base(out)
       IN got.kind # "Running" =>
            /\ got.kind = meta.want
            /\ got.kind = "Ok" => got.bases = meta.bases

----------------------------------------------------------------------------
(* Inputs: a Readers over up to MaxReaders streams.  Each stream starts with *)
(* '>' or '@' and is at least 4 bytes long, as parse_path requires of a     *)
(* stream it makes a Reader of.                                             *)

PlainHeader(id) == [id |-> id, gap |-> <<>>, desc |-> <<>>]

AggShort(id, nl) == [Rec(GT, PlainHeader(id), <<<<"A">>, <<"C">>>>, <<>>, <<>>) EXCEPT !.nl = nl]
AggLong(id, nl) == [Rec(AT, PlainHeader(id), <<<<"A", "C">>>>, <<PLUS>>, <<<<"!", "@">>>>)
                      EXCEPT !.nl = nl]

\* well-formed streams of one or two records, with and without the final newline
AggStreams ==
    {<<AggShort(<<"1">>, TRUE)>>,
     <<AggShort(<<"2">>, TRUE), AggShort(<<"3">>, FALSE)>>,
     <<AggLong(<<"4">>, FALSE)>>,
     <<AggLong(<<"5">>, TRUE), AggLong(<<"6">>, TRUE)>>}

\* streams with a defect: a record without sequence, alone or after a record
AggBroken ==
    {<<[AggLong(<<"7">>, TRUE) EXCEPT !.defect = "no_seq"]>>,
     <<AggShort(<<"8">>, TRUE), [AggShort(<<"9">>, TRUE) EXCEPT !.defect = "no_seq"]>>}

\* the length of the longest of the streams S
Longest(S) ==
    CHOOSE n \in {Len(StreamText(s)) : s \in S} :
       \A s \in S : Len(StreamText(s)) <= n

ReadersOver(srcs, cuts) ==
    [index |-> 0,
     readers |-> [k \in 1..Len(srcs) |-> NewSource(StreamText(srcs[k]), cuts)]]

InitReadersOf(family, S) ==
    /\ \E srcs \in SeqsUpTo(S, MaxReaders) :
         /\ meta = [family |-> family, recs |-> Concat(srcs), srcs |-> srcs]
         /\ \E cuts \in CutSets(Longest(S)) : readers = ReadersOver(srcs, cuts)
    /\ reader = NewSource(<<>>, {})
    /\ paths = [kind |-> "Direct", err |-> "", arg |-> <<>>]
    /\ out = <<>>

InitReaders == InitReadersOf("readers", AggStreams)
InitReadersAny == InitReadersOf("readers_any", AggStreams \cup AggBroken)

SpecReaders == InitReaders /\ [][ReadersIterRecord]_vars
SpecReadersAny == InitReadersAny /\ [][ReadersIterRecord]_vars

----------------------------------------------------------------------------
(* Inputs: a directory "d" of files, and the path "d/t" given to            *)
(* parse_path.  The file at "d/t" holds record streams, a manifest, or      *)
(* fewer than 4 bytes, as they are or compressed (once, or twice).          *)

Dir == <<"d">>
InDir(name) == Dir \o <<SLASH>> \o <<name>>
Top == InDir("t")

RECURSIVE Gz(_, _)
Gz(g, bytes) == IF g = 0 THEN bytes ELSE gzip(Gz(g - 1, bytes))

\* the files that manifests list: two record files, a compressed record file,
\* a file of 3 bytes, a manifest, and a compressed file of 3 bytes
RecordsA == <<AggShort(<<"1">>, TRUE)>>
RecordsB == <<AggLong(<<"2">>, TRUE)>>
RecordsG == <<AggLong(<<"1">>, FALSE), AggShort(<<"2">>, TRUE)>>

Listed ==
    [p \in {InDir("a"), InDir("b"), InDir("g"), InDir("s"), InDir("n"), InDir("h")} |->
       IF p = InDir("a") THEN StreamText(RecordsA)
       ELSE IF p = InDir("b") THEN StreamText(RecordsB)
       ELSE IF p = InDir("g") THEN gzip(StreamText(RecordsG))
       ELSE IF p = InDir("s") THEN <<GT, "1", NL>>
       ELSE IF p = InDir("n") THEN <<"a", NL, "b", NL>>
       ELSE gzip(<<GT, "1", NL>>)]

\* the lines a manifest is written of: what the line holds, what it names
Entry(kind, text, name, recs) == [kind |-> kind, text |-> text, name |-> name, recs |-> recs]

Entries ==
    {Entry("file", <<"a">>, "a", RecordsA),
     Entry("file", <<SP, "b", CR>>, "b", RecordsB),
     Entry("file", <<"g">>, "g", RecordsG),
     Entry("manifest", <<"n">>, "n", <<>>),
     Entry("short", <<"s">>, "s", <<>>),
     Entry("missing", <<"x">>, "x", <<>>),
     Entry("comment", <<HASH, "x">>, "", <<>>),
     Entry("blank", <<TAB>>, "", <<>>)}

RECURSIVE ManifestText(_, _)
ManifestText(es, nl) ==
    IF es = <<>> THEN <<>>
    ELSE IF Len(es) = 1 THEN (IF nl THEN Append(es[1].text, NL) ELSE es[1].text)
    ELSE Append(es[1].text, NL) \o ManifestText(Tail(es), nl)

\* streams of fewer than 4 bytes
ShortStreams == SeqsUpTo({GT, NL, "a"}, MaxShortLen)

\* what "d/t" holds before compression
Tops ==
    {[what |-> "records", recs |-> s, entries |-> <<>>, plain |-> StreamText(s)] :
        s \in AggStreams}
    \cup {[what |-> "manifest", recs |-> <<>>, entries |-> es, plain |-> ManifestText(es, nl)] :
             es \in SeqsUpTo(Entries, MaxLines), nl \in BOOLEAN}
    \cup {[what |-> "short", recs |-> <<>>, entries |-> <<>>, plain |-> s] : s \in ShortStreams}

FsWith(bytes) == [p \in DOMAIN Listed \cup {Top} |-> IF p = Top THEN bytes ELSE Listed[p]]

Unresolved == [kind |-> "Unresolved", err |-> "", arg |-> <<>>]

InitPath ==
    /\ \E top \in Tops, g \in 0..2, chunk \in 0..MaxChunk :
         /\ g = 2 => top.what = "records"
         /\ meta = [family |-> "path", what |-> top.what, recs |-> top.recs,
                    entries |-> top.entries, plain |-> top.plain, gz |-> g,
                    chunk |-> chunk, path |-> Top, fs |-> FsWith(Gz(g, top.plain))]
    /\ reader = NewSource(<<>>, {})
    /\ readers = Readers_new
    /\ paths = Unresolved
    /\ out = <<>>

\* the caller resolves the path
ParsePath ==
    /\ paths.kind = "Unresolved"
    /\ LET got == parse_path(meta.fs, meta.path, meta.chunk)
       IN /\ paths' = [kind |-> got.kind, err |-> got.err, arg |-> got.arg]
          /\ reader' = IF got.kind = "Reader" THEN got.reader ELSE reader
          /\ readers' = IF got.kind = "Readers"
                        THEN [index |-> 0, readers |-> got.readers] ELSE readers
    /\ UNCHANGED <<out, meta>>

\* Reader::iter_record_check, which Paths::iter_record calls on a Reader: the
\* next record, checked, or end-of-stream, as Reader::iter_record answers
iter_record_check(r) == iter_record(r)

\* Paths::iter_record on what parse_path answered
PathsIterRecord ==
    /\ paths.kind \in {"Reader", "Readers"}
    /\ Len(out) < MaxCalls
    /\ IF out = <<>> THEN TRUE ELSE out[Len(out)].kind \notin {"None", "Panic"}
    /\ IF paths.kind = "Reader"
       THEN LET call == iter_record_check(reader)
            IN /\ reader' = call.r
               /\ out' = Append(out, [from |-> 0, probed |-> {}] @@ call.res)
               /\ UNCHANGED readers
       ELSE LET call == readers_iter_record(readers)
            IN /\ readers' = call.rs
               /\ out' = Append(out, [from |-> call.from, probed |-> call.probed] @@ call.res)
               /\ UNCHANGED reader
    /\ UNCHANGED <<meta, paths>>

NextPath == ParsePath \/ PathsIterRecord

SpecPath == InitPath /\ [][NextPath]_vars

----------------------------------------------------------------------------
(* Inputs: a well-formed stream whose source fails up to MaxIntr fill_buf    *)
(* calls with ErrorKind::Interrupted, each at some position of the stream   *)

IntrSets(n) == {I \in SUBSET (0..n) : Cardinality(I) \in 1..MaxIntr}

InitInterrupted ==
    /\ \E recs \in AggStreams :
         /\ meta = [family |-> "interrupted", recs |-> recs]
         /\ \E cuts \in CutSets(Len(StreamText(recs))), I \in IntrSets(Len(StreamText(recs))) :
               reader = [NewSource(StreamText(recs), cuts) EXCEPT !.intr = I]
    /\ out = <<>>
    /\ Standalone

SpecInterrupted == InitInterrupted /\ [][Next]_vars

----------------------------------------------------------------------------
(* Inputs: arbitrary byte strings that may hold a byte that is no UTF-8 *)

BinaryAlphabet == {GT, AT, PLUS, NL, XFF, "A"}

InitBinary ==
    /\ \E bytes \in SeqsUpTo(BinaryAlphabet, MaxRawLen) :
         \E cuts \in CutSets(Len(bytes)) : reader = NewSource(bytes, cuts)
    /\ out = <<>>
    /\ Standalone
    /\ meta = [family |-> "binary", recs |-> <<>>]

SpecBinary == InitBinary /\ [][Next]_vars

----------------------------------------------------------------------------
(* Inputs: two well-formed records of one format with one blank line, empty *)
(* or of whitespace bytes, written before the first or between the two     *)

BlankLines == {<<>>, <<SP>>, <<TAB>>, <<CR>>, <<SP, TAB>>}

\* the stream of recs with the line blank written before the record at + 1
BlankText(recs, blank, at) ==
    StreamText(SubSeq(recs, 1, at)) \o Append(blank, NL)
       \o StreamText(SubSeq(recs, at + 1, Len(recs)))

InitBlank ==
    /\ \E S \in {ShortRecs, LongRecs} : \E a \in S, b \in S, blank \in BlankLines, at \in 0..1 :
         LET recs == <<a, b>>
         IN /\ meta = [family |-> "blank", recs |-> recs, blank |-> blank, at |-> at]
            /\ \E cuts \in CutSets(Len(BlankText(recs, blank, at))) :
                  reader = NewSource(BlankText(recs, blank, at), cuts)
    /\ out = <<>>
    /\ Standalone

SpecBlank == InitBlank /\ [][Next]_vars

----------------------------------------------------------------------------
(* Inputs: a record of either format whose sequence holds a '>' or a '+'   *)
(* that is not the first byte of its line, alone or followed by a          *)
(* well-formed record of the same format                                   *)

\* sequence lines with the byte b inside the only line, or at the end of the
\* second of two lines
InnerBodies(b) == {<<<<"A", b, "C">>>>, <<<<"A">>, <<"C", b>>>>}

InnerRec(tag, body) ==
    Rec(tag, PlainHeader(<<"1">>), body, IF tag = GT THEN <<>> ELSE <<PLUS>>,
        IF tag = GT THEN <<>> ELSE <<Cyc(<<"!">>, Len(Concat(body)))>>)

InitInner ==
    /\ \E tag \in {GT, AT}, b \in {GT, PLUS}, nl \in BOOLEAN :
         \E body \in InnerBodies(b), rest \in SeqsUpTo(IF tag = GT THEN ShortRecs ELSE LongRecs, 1) :
            LET recs == <<InnerRec(tag, body)>> \o rest
                text == StreamText([recs EXCEPT ![Len(recs)].nl = nl])
            IN /\ meta = [family |-> "inner", inner |-> b,
                          recs |-> [recs EXCEPT ![Len(recs)].nl = nl]]
               /\ \E cuts \in CutSets(Len(text)) : reader = NewSource(text, cuts)
    /\ out = <<>>
    /\ Standalone

SpecInner == InitInner /\ [][Next]_vars

----------------------------------------------------------------------------
(* Inputs: two well-formed records of one format, the last line of the     *)
(* first ended by a newline alone or by whitespace bytes and a newline     *)
(* (trailing blanks, a carriage return before the newline), or followed by *)
(* a blank line                                                            *)

Gaps == {<<NL>>, <<SP, NL>>, <<CR, NL>>, <<NL, NL>>, <<NL, TAB, NL>>}

GapText(recs, gap) ==
    RecText([recs[1] EXCEPT !.nl = FALSE]) \o gap \o RecText(recs[2])

InitGap ==
    /\ \E S \in {ShortRecs, LongRecs} : \E a \in S, b \in S, gap \in Gaps :
         LET recs == <<a, b>>
         IN /\ meta = [family |-> "gap", recs |-> recs, gap |-> gap]
            /\ \E cuts \in CutSets(Len(GapText(recs, gap))) :
                  reader = NewSource(GapText(recs, gap), cuts)
    /\ out = <<>>
    /\ Standalone

SpecGap == InitGap /\ [][Next]_vars

----------------------------------------------------------------------------
(* Every input together *)

Init == InitRaw \/ InitShort \/ InitLong \/ InitMismatch \/ InitPair \/ InitScenario

Spec == Init /\ [][Next]_vars

----------------------------------------------------------------------------
(* Properties *)

\* the records written before the k-th were all written without a defect
CleanBefore(k) == \A j \in 1..(k - 1) : meta.recs[j].defect = "none"

\* the stream holds a k-th record and iter_record has answered for it
Answered(k) == k <= Len(out) /\ k <= Len(meta.recs)

\* C1: every well-formed short-form record of a stream is returned as a record
\* whose head() is the identifier written, whose seq() is the sequence lines
\* written, concatenated without their newlines, and whose len() is the length
\* of seq()
C1_ShortRoundTrip ==
    meta.family = "short" =>
       \A k \in 1..Len(out) :
          (Answered(k) /\ meta.recs[k].defect = "none") =>
             /\ out[k].kind = "Record"
             /\ head(out[k]) = meta.recs[k].id
             /\ seq(out[k]) = Concat(meta.recs[k].lines)
             /\ len(out[k]) = Len(seq(out[k]))

\* a two-line record with a description, written after another record, was returned
C1_Witness ==
    /\ meta.family = "short"
    /\ Answered(2)
    /\ meta.recs[2].defect = "none"
    /\ Len(meta.recs[2].lines) = 2
    /\ meta.recs[2].desc # <<>>
    /\ out[2].kind = "Record"

\* C2: every record of a well-formed long-form stream is returned as one record
\* with the sequence lines as seq() and the quality lines as qual(), whatever
\* bytes the quality lines start with, and the stream then ends: no quality
\* line is read as a header
C2_LongRoundTrip ==
    meta.family = "long" =>
       \A k \in 1..Len(out) :
          /\ (Answered(k) /\ CleanBefore(k + 1)) =>
                /\ out[k].kind = "Record"
                /\ head(out[k]) = meta.recs[k].id
                /\ seq(out[k]) = Concat(meta.recs[k].lines)
                /\ qual(out[k]) = Concat(meta.recs[k].qlines)
          /\ (k = Len(meta.recs) + 1 /\ CleanBefore(k)) => out[k].kind = "None"

\* a record whose second quality line starts with '@' was returned, and so was
\* the record after it
C2_Witness ==
    /\ meta.family = "long"
    /\ Answered(2)
    /\ CleanBefore(3)
    /\ Len(meta.recs[1].qlines) = 2
    /\ meta.recs[1].qlines[2] # <<>>
    /\ meta.recs[1].qlines[2][1] = AT
    /\ out[1].kind = "Record"
    /\ out[2].kind = "Record"

\* C3: every record returned, on any input, starts with '>' or '@', has a
\* non-empty identifier and a non-empty sequence, and, in long form, a quality
\* as long as its sequence
C3_ReturnedRecordsValid ==
    \A k \in 1..Len(out) :
       out[k].kind = "Record" =>
          /\ out[k].data[1] \in {GT, AT}
          /\ Len(head(out[k])) > 0
          /\ Len(seq(out[k])) > 0
          /\ out[k].data[1] = AT => Len(qual(out[k])) = Len(seq(out[k]))

\* a long-form record was returned from a stream that also produced an error
C3_Witness ==
    \E k \in 1..Len(out), j \in 1..Len(out) :
       /\ out[k].kind = "Record"
       /\ out[k].data[1] = AT
       /\ out[j].kind \in {"InvalidFastq", "InvalidFastx", "TruncateFile"}

\* what a caller sees of a returned record
Fields(fx) == [head |-> head(fx), des |-> des(fx), seq |-> seq(fx), qual |-> qual(fx)]

\* reading rec alone, under any chunking, returns one record and then end-of-stream
Alone(rec) ==
    {RunAll(NewSource(RecText(rec), c), MaxCalls) : c \in CutSets(Len(RecText(rec)))}

\* C4: a stream made of two well-formed records A and B of one format yields a
\* record, a record, and end-of-stream, and the two records have the fields
\* that reading A alone and B alone gives
C4_Composable ==
    meta.family = "pair" =>
       \A k \in 1..Len(out) :
          /\ out[k].kind = (IF k <= 2 THEN "Record" ELSE "None")
          /\ k <= 2 =>
               \A alone \in Alone(meta.recs[k]) :
                  /\ Len(alone) = 2
                  /\ alone[1].kind = "Record"
                  /\ alone[2].kind = "None"
                  /\ Fields(out[k]) = Fields(alone[1])

\* two records, the first written without its final newline, were read to the end
C4_Witness ==
    /\ meta.family = "pair"
    /\ Len(out) = 3
    /\ ~meta.recs[1].nl
    /\ out[3].kind = "None"

\* C5: the stream ">1 rec1\nATGC\n>2 rec2\nATGC" is read as two records with the
\* identifiers "1" and "2", the descriptions "rec1" and "rec2" (the text after
\* the whitespace that ends the identifier), the sequences "ATGC", 8 bases in all
C5_HeaderFields ==
    (meta.family = "scenario" /\ meta.name = "spec_fasta_two" /\ Len(out) = 3) =>
       /\ <<out[1].kind, out[2].kind, out[3].kind>> = <<"Record", "Record", "None">>
       /\ head(out[1]) = <<"1">> /\ head(out[2]) = <<"2">>
       /\ des(out[1]) = <<"r", "e", "c", "1">> /\ des(out[2]) = <<"r", "e", "c", "2">>
       /\ seq(out[1]) = <<"A", "T", "G", "C">> /\ seq(out[2]) = <<"A", "T", "G", "C">>
       /\ len(out[1]) + len(out[2]) = 8

\* C6: a long-form stream whose last record was cut off after its header, after
\* its sequence or after its separator line makes iter_record answer
\* TruncateFile for that record
C6_TruncatedLong ==
    meta.family = "long" =>
       LET n == Len(meta.recs)
       IN (Answered(n) /\ CleanBefore(n)
             /\ meta.recs[n].defect \in {"hdr_only", "no_sep", "no_qual"})
          => out[n].kind = "TruncateFile"

\* a second record that ends with its separator line was answered
C6_Witness ==
    /\ meta.family = "long"
    /\ Len(meta.recs) = 2
    /\ Answered(2)
    /\ CleanBefore(2)
    /\ meta.recs[2].defect = "no_qual"
    /\ out[2].kind = "TruncateFile"

\* the stream ends inside the quality of its only record: some quality bytes
\* were written, but fewer than sequence bytes
EndsInQuality ==
    /\ meta.family = "mismatch"
    /\ Len(meta.recs) = 1
    /\ meta.recs[1].qlines # <<>>
    /\ Len(Concat(meta.recs[1].qlines)) < Len(Concat(meta.recs[1].lines))

\* C7, as claimed: when the stream ends inside a long-form record's quality
\* (some, but fewer quality bytes than sequence bytes), iter_record answers
\* TruncateFile
C7_Original == (EndsInQuality /\ Answered(1)) => out[1].kind = "TruncateFile"

\* C7, amended: in that case iter_record answers InvalidFastq, and TruncateFile
\* only when the record has no identifier
C7_EndsInQualityIsInvalid ==
    (EndsInQuality /\ Answered(1)) =>
       out[1].kind = (IF meta.recs[1].id = <<>> THEN "TruncateFile" ELSE "InvalidFastq")

\* a record with an identifier, 3 sequence bytes and 2 quality bytes was answered
C7_Witness ==
    /\ EndsInQuality
    /\ Answered(1)
    /\ meta.recs[1].id # <<>>
    /\ Len(Concat(meta.recs[1].lines)) = 3
    /\ Len(Concat(meta.recs[1].qlines)) = 2
    /\ out[1].kind = "InvalidFastq"

\* C8: a long-form record that has an identifier and a quality, the quality of
\* another length than its sequence, is answered with InvalidFastq, be it the
\* last record of the stream or not
C8_LengthMismatchIsInvalid ==
    (/\ meta.family = "mismatch"
     /\ Answered(1)
     /\ meta.recs[1].id # <<>>
     /\ meta.recs[1].qlines # <<>>)
    => out[1].kind = "InvalidFastq"

\* C9: reading a long-form stream in which a record has fewer quality bytes
\* than sequence bytes and another record follows never completes
\* successfully: an error is returned before end-of-stream (the error that
\* the tests meet there is InvalidFastx)
C9_ShortQualityIsNoticed ==
    (/\ meta.family = "mismatch"
     /\ Len(meta.recs) > 1
     /\ meta.recs[1].id # <<>>
     /\ meta.recs[1].qlines # <<>>
     /\ Len(Concat(meta.recs[1].qlines)) < Len(Concat(meta.recs[1].lines)))
    => count_base(out).kind # "Ok"

\* the stream holds a byte that is not whitespace after position p
DataAfter(p) == \E j \in (p + 1)..Len(reader.src) : ~is_whitespace(reader.src[j])

\* C10: a record parsed with an empty identifier or an empty sequence is
\* answered with TruncateFile exactly when only whitespace is left in the
\* stream after it, and otherwise with InvalidFasta (tag '>') or InvalidFastq
\* (tag '@')
C10_TruncatedOrMalformed ==
    \A k \in 1..Len(out) :
       (/\ out[k].kind \notin {"None", "InvalidFastx"}
        /\ (out[k]._head = 1 \/ out[k]._seq = out[k]._des))
       => out[k].kind = (IF ~DataAfter(out[k].rest) THEN "TruncateFile"
                         ELSE IF out[k].data[1] = GT THEN "InvalidFasta"
                         ELSE "InvalidFastq")

\* a long-form record without identifier was answered InvalidFastq because
\* a newline and then another record follow it
C10_Witness ==
    \E k \in 1..Len(out) :
       /\ out[k].kind = "InvalidFastq"
       /\ out[k]._head = 1
       /\ out[k].rest < Len(reader.src)
       /\ reader.src[out[k].rest + 1] = NL
       /\ DataAfter(out[k].rest)

\* 0-based place where the next non-empty line of the stream starts, at or
\* after position p, or -1 when only newlines are left
NextLineStart(p) ==
    LET starts == {i \in p..(Len(reader.src) - 1) : reader.src[i + 1] # NL}
    IN IF starts = {} THEN -1 ELSE Min(starts)

\* 0-based place of the newline that ends the line starting at s, or the
\* length of the stream when the line is the last one and has no newline
LineEnd(s) ==
    LET e == NextMatch(reader.src, {NL}, s)
    IN IF e = -1 THEN Len(reader.src) ELSE e

\* C11: whenever iter_record is called where the next non-empty line of the
\* stream starts with a byte that is neither '>' nor '@', the call answers
\* InvalidFastx carrying that line, and has consumed that line and its newline
\* and not one byte more
C11_RejectedAtOnce ==
    [][LET s == NextLineStart(reader.pos)
       IN (s # -1 /\ reader.src[s + 1] \notin {GT, AT}) =>
             /\ out'[Len(out')].kind = "InvalidFastx"
             /\ out'[Len(out')].msg = Slice(reader.src, s, LineEnd(s))
             /\ reader'.pos = (IF LineEnd(s) = Len(reader.src) THEN LineEnd(s)
                               ELSE LineEnd(s) + 1)]_vars

\* after a record was returned, a line with another first byte was rejected
\* and the bytes behind that line are still in the stream
C11_Witness ==
    /\ Len(out) >= 2
    /\ out[1].kind = "Record"
    /\ out[Len(out)].kind = "InvalidFastx"
    /\ reader.pos = out[Len(out)].rest
    /\ DataAfter(reader.pos)

\* C12: no call of iter_record ends in a panic, whatever bytes the stream
\* holds, bytes that are no UTF-8 included
C12_NoPanic == \A k \in 1..Len(out) : out[k].kind # "Panic"

\* the place, in the Readers, of the Reader that holds the k-th record of all
RECURSIVE OwnerOf(_, _, _)
OwnerOf(srcs, k, idx) ==
    IF k <= Len(srcs[1]) THEN idx ELSE OwnerOf(Tail(srcs), k - Len(srcs[1]), idx + 1)

\* C13: successive Readers::iter_record calls on Readers over well-formed
\* streams return the records of the first stream in order, then those of the
\* second, and so on, each from the Reader that holds it, and end-of-stream
\* after the last record of the last stream
C13_Concatenation ==
    meta.family = "readers" =>
       \A k \in 1..Len(out) :
          IF k <= Len(meta.recs)
          THEN /\ out[k].kind = "Record"
               /\ head(out[k]) = meta.recs[k].id
               /\ seq(out[k]) = Concat(meta.recs[k].lines)
               /\ qual(out[k]) = Concat(meta.recs[k].qlines)
               /\ out[k].from = OwnerOf(meta.srcs, k, 0)
          ELSE out[k].kind = "None"

\* two Readers, the first over one record, the second over two: all three
\* records were returned and then end-of-stream
C13_Witness ==
    /\ meta.family = "readers"
    /\ Len(meta.srcs) = 2
    /\ Len(meta.srcs[1]) = 1
    /\ Len(meta.srcs[2]) = 2
    /\ Len(out) = 4
    /\ out[3].kind = "Record"
    /\ out[3].from = 1
    /\ out[4].kind = "None"

\* C20: in every Readers::iter_record call the cursor stays within
\* 0..number of Readers and does not decrease, no Reader below the cursor is
\* asked has_data_left or changed, and a call made after a call that answered
\* end-of-stream answers end-of-stream
C20_CursorMonotonic ==
    [][/\ readers.index <= readers'.index
       /\ readers'.index <= Len(readers'.readers)
       /\ \A j \in 1..readers.index : readers'.readers[j] = readers.readers[j]
       /\ \A i \in out'[Len(out')].probed : i >= readers.index
       /\ (out # <<>> /\ out[Len(out)].kind = "None") => out'[Len(out')].kind = "None"]_vars

\* the cursor passed both Readers, the first of which had answered an error,
\* and end-of-stream was answered twice
C20_Witness ==
    /\ meta.family = "readers_any"
    /\ Len(readers.readers) = 2
    /\ readers.index = 2
    /\ Len(out) >= 3
    /\ out[1].kind \notin {"Record", "None"}
    /\ out[Len(out) - 1].kind = "None"
    /\ out[Len(out)].kind = "None"

\* what the calls answer on the same stream, cut into the same chunks, when no
\* fill_buf call is interrupted
Uninterrupted == RunAll([reader EXCEPT !.pos = 0, !.data = <<>>, !.intr = {}], MaxCalls)

\* C19: wherever the source answers Interrupted, iter_record answers as it
\* does on the same stream without interruptions, and never with the Io error
C19_InterruptedRetried ==
    meta.family = "interrupted" =>
       \A k \in 1..Len(out) :
          /\ out[k].kind # "Io"
          /\ k <= Len(Uninterrupted)
          /\ out[k].kind = Uninterrupted[k].kind
          /\ Fields(out[k]) = Fields(Uninterrupted[k])

\* parse_path has answered for "d/t"
Resolved == meta.family = "path" /\ paths.kind # "Unresolved"

\* the stream that is sniffed has 4 bytes or more
Sniffable == meta.gz <= 1 /\ Len(meta.plain) >= 4

EntryKinds == {meta.entries[k].kind : k \in 1..Len(meta.entries)}

\* the bytes of the streams that the Readers of the Readers read
ReaderTexts == [k \in 1..Len(readers.readers) |-> readers.readers[k].src]

\* the record streams that a manifest of these lines lists, nested manifests
\* flattened: "d/n" lists "d/a" and "d/b"
RECURSIVE FlatTexts(_)
FlatTexts(es) ==
    IF es = <<>> THEN <<>>
    ELSE (IF es[1].kind = "file" THEN <<StreamText(es[1].recs)>>
          ELSE IF es[1].kind = "manifest" THEN <<StreamText(RecordsA), StreamText(RecordsB)>>
          ELSE <<>>) \o FlatTexts(Tail(es))

\* C14: resolving a manifest whose lines name record files and manifests
\* answers a Readers whose Readers read, in order, the record files listed,
\* those of a listed manifest in the place of that manifest
C14_NestedFlattened ==
    (/\ Resolved
     /\ meta.what = "manifest"
     /\ Sniffable
     /\ EntryKinds \subseteq {"file", "manifest", "comment", "blank"})
    => /\ paths.kind = "Readers"
       /\ ReaderTexts = FlatTexts(meta.entries)

\* C15: resolving a manifest whose lines are blank, start with '#', or name
\* record files or missing paths: when no path is missing, the answer is a
\* Readers with one Reader for each line that names a file, in line order,
\* and none for the other lines; otherwise it is the InvalidData error naming
\* the first missing path, and no Readers, whatever lines come before it
C15_ManifestLines ==
    (/\ Resolved
     /\ meta.what = "manifest"
     /\ Sniffable
     /\ EntryKinds \subseteq {"file", "missing", "comment", "blank"})
    => IF "missing" \in EntryKinds
       THEN /\ paths = [kind |-> "Err", err |-> "InvalidData", arg |-> InDir("x")]
            /\ readers = Readers_new
       ELSE /\ paths.kind = "Readers"
            /\ ReaderTexts = FlatTexts(meta.entries)

\* a manifest that names a record file and then a missing path was refused
C15_Witness ==
    /\ Resolved
    /\ meta.what = "manifest"
    /\ Len(meta.entries) = 2
    /\ meta.entries[1].kind = "file"
    /\ meta.entries[2].kind = "missing"
    /\ paths.kind = "Err"

\* C16: the Reader that parse_path answers reads the whole stream, from its
\* first byte on (the decompressed stream when the file is compressed), and
\* returns the first record complete; the lines of a manifest are read from
\* its first byte on: its first line is resolved as written
C16_SniffedBytesKept ==
    /\ (Resolved /\ meta.what = "records" /\ Sniffable) =>
          /\ paths.kind = "Reader"
          /\ reader.src = meta.plain
          /\ out = <<>> => reader.pos = 0
          /\ out # <<>> =>
                /\ out[1].kind = "Record"
                /\ head(out[1]) = meta.recs[1].id
                /\ seq(out[1]) = Concat(meta.recs[1].lines)
    /\ (Resolved /\ meta.what = "manifest" /\ Sniffable /\ meta.entries[1].kind = "file") =>
          /\ paths.kind = "Readers" => /\ Len(readers.readers) >= 1
                                       /\ readers.readers[1].src = StreamText(meta.entries[1].recs)
          /\ paths.kind = "Err" => paths.arg # InDir(meta.entries[1].name)

\* the first record of a compressed record file was returned
C16_Witness ==
    /\ Resolved
    /\ meta.what = "records"
    /\ meta.gz = 1
    /\ Len(out) >= 1
    /\ out[1].kind = "Record"

\* C17: when the file, or what the decoder gives of a compressed file, is
\* shorter than 4 bytes, parse_path answers the error UnexpectedEof: no
\* Reader, no Readers, no panic
C17_TooShort ==
    (Resolved /\ meta.gz <= 1 /\ Len(meta.plain) < 4) =>
       /\ paths = [kind |-> "Err", err |-> "UnexpectedEof", arg |-> <<>>]
       /\ reader = NewSource(<<>>, {})
       /\ readers = Readers_new
       /\ out = <<>>

\* a compressed file of 3 bytes was refused
C17_Witness ==
    /\ Resolved
    /\ meta.gz = 1
    /\ Len(meta.plain) = 3
    /\ paths.kind = "Err"

\* what parse_path answers when "d/t" holds the bytes uncompressed, and what
\* the calls of iter_record then answer
PlainPaths == parse_path(FsWith(meta.plain), meta.path, meta.chunk)

PlainRun ==
    IF PlainPaths.kind = "Reader" THEN RunAll(PlainPaths.reader, MaxCalls)
    ELSE RunAllReaders([index |-> 0, readers |-> PlainPaths.readers], MaxCalls)

\* C18: when the bytes B resolve to a Reader or a Readers, gzip(B) resolves
\* to the same: a Reader over the same bytes, or a Readers over the same
\* streams, and the calls of iter_record answer the same; gzip(gzip(B))
\* resolves to neither
C18_GzipTransparent ==
    /\ (Resolved /\ meta.gz = 1 /\ PlainPaths.kind \in {"Reader", "Readers"}) =>
          /\ paths.kind = PlainPaths.kind
          /\ paths.kind = "Reader" => reader.src = PlainPaths.reader.src
          /\ paths.kind = "Readers" =>
                ReaderTexts = [k \in 1..Len(PlainPaths.readers) |-> PlainPaths.readers[k].src]
          /\ \A k \in 1..Len(out) :
                /\ out[k].kind = PlainRun[k].kind
                /\ Fields(out[k]) = Fields(PlainRun[k])
    /\ (Resolved /\ meta.gz = 2) => paths.kind \notin {"Reader", "Readers"}

\* a compressed manifest of two record files was resolved and a record of
\* the second file was returned
C18_Witness ==
    /\ Resolved
    /\ meta.gz = 1
    /\ paths.kind = "Readers"
    /\ Len(readers.readers) = 2
    /\ \E k \in 1..Len(out) : out[k].kind = "Record" /\ out[k].from = 1

\* the results of reading the records of the stream written without the
\* blank line
WithoutBlank == RunAll(NewSource(StreamText(meta.recs), {}), MaxCalls)

\* C21: a line that is empty or holds whitespace bytes only, written before
\* the first record or between two records, is skipped: the calls answer what
\* they answer on the stream without that line, record for record, and then
\* end-of-stream
C21_BlankLinesSkipped ==
    meta.family = "blank" =>
       \A k \in 1..Len(out) :
          /\ out[k].kind = WithoutBlank[k].kind
          /\ Fields(out[k]) = Fields(WithoutBlank[k])

\* C22: a '>' or a '+' that is not the first byte of its line does not end
\* a sequence: every record of such a stream is returned with the sequence
\* lines written as its seq(), that byte included, and the stream then ends
C22_BoundariesAtLineStart ==
    meta.family = "inner" =>
       \A k \in 1..Len(out) :
          /\ Answered(k) =>
                /\ out[k].kind = "Record"
                /\ head(out[k]) = meta.recs[k].id
                /\ seq(out[k]) = Concat(meta.recs[k].lines)
          /\ k = Len(meta.recs) + 1 => out[k].kind = "None"

\* the bytes of s that are not newlines
NoNewlines(s) == SelectSeq(s, LAMBDA b : b # NL)

\* the result is a Record View: a record returned, or one that validation
\* rejected
IsView(res) == res.kind \in {"Record", "InvalidFasta", "InvalidFastq"}

\* C23: every Record View that a call of iter_record builds has
\* 1 <= _head <= _des <= _seq <= _sep <= _qual = length of the buffer, a
\* buffer that starts with '>' or '@' and holds the bytes the call took from
\* the stream, newlines left out, and nothing of an earlier record; in short
\* form _sep = _qual = _seq
C23_OffsetsInRange ==
    [][LET res == out'[Len(out')]
       IN IsView(res) =>
             /\ 1 <= res._head
             /\ res._head <= res._des
             /\ res._des <= res._seq
             /\ res._seq <= res._sep
             /\ res._sep <= res._qual
             /\ res._qual = Len(res.data)
             /\ res.data[1] \in {GT, AT}
             /\ res.data[1] = GT => (res._sep = res._seq /\ res._qual = res._seq)
             /\ res.data = NoNewlines(Slice(reader.src, reader.pos, res.rest))
             /\ reader'.data = res.data]_vars

\* a long-form view was built and rejected by validation, and the next call
\* returned a long-form record with a description
C23_Witness ==
    /\ Len(out) >= 2
    /\ out[1].kind = "InvalidFastq"
    /\ out[1]._seq < out[1]._qual
    /\ out[2].kind = "Record"
    /\ out[2]._head < out[2]._des
    /\ out[2]._sep < out[2]._qual

\* the results of reading the same bytes from a source that shows them all
\* in one chunk
OneChunk == RunAll(NewSource(reader.src, {}), MaxCalls)

\* what a caller sees of a result: a record's fields, an error's text
Seen(res) == [kind |-> res.kind, fields |-> Fields(res), msg |-> res.msg]

\* C24: the calls of iter_record answer the same, call for call, however the
\* source splits the bytes of the stream into chunks
C24_ChunkingIndependent ==
    \A k \in 1..Len(out) :
       /\ k <= Len(OneChunk)
       /\ Seen(out[k]) = Seen(OneChunk[k])

\* C25: every call of iter_record on a Reader returns; a call that answers a
\* record or an error has taken at least one byte from the stream, a call
\* made at the end of the stream answers end-of-stream, and end-of-stream is
\* answered only there: a caller that keeps calling, past errors too, gets
\* end-of-stream after at most as many other answers as the stream has bytes
C25_ProgressToEnd ==
    [][LET res == out'[Len(out')]
       IN /\ res.kind # "Panic"
          /\ res.kind # "None" => reader'.pos > reader.pos
          /\ reader'.pos <= Len(reader.src)
          /\ reader.pos = Len(reader.src) => res.kind = "None"
          /\ res.kind = "None" => reader'.pos = Len(reader.src)]_vars

====
